---- MODULE Spec2Model ----
(***************************************************************************)
(* A model of rhai's export-module generator (codegen/src/module.rs:       *)
(* Module::parse and Module::generate) and of the core language package    *)
(* (src/packages/lang_core.rs: get_tag, set_tag and their dispatchers).    *)
(*                                                                         *)
(* A declaration block is a sequence of items.  Module::parse folds over   *)
(* the function items, detaching the first rhai_fn attribute of each, and  *)
(* collects the public constants; Module::generate emits the (mutated)     *)
(* items followed by the generated registration code.                      *)
(***************************************************************************)
EXTENDS Integers, Sequences, FiniteSets, TLC

\* ---------------------------------------------------------------- bounds

\* Longest declaration block that is enumerated.
MaxItems == 3
\* Longest parameter list that is enumerated (signature specification).
MaxParams == 3
\* Call-site positions 1..MaxPos; 0 is Position::NONE.
MaxPos == 2
\* Number of variables the running script holds.
MaxVars == 2
MaxModules == 4

\* ------------------------------------------------------------ attributes

\* An attribute #[path(args)].  args of a rhai_fn attribute is one of
\* "skip" (rhai_fn(skip)), "pure" (rhai_fn(pure), a non-skip modifier) and
\* "bad" (a malformed argument list).
Attr(path, args) == [path |-> path, args |-> args]

\* The closure of `position` in inner_fn_attributes: the attribute's path is
\* the single identifier rhai_fn.
IsRhaiFn(a) == a.path = "rhai_fn"

\* Iterator::position: 1-based index of the first element satisfying
\* IsRhaiFn, 0 for None.
RECURSIVE PositionFrom(_, _)
PositionFrom(attrs, i) ==
    IF i > Len(attrs) THEN 0
    ELSE IF IsRhaiFn(attrs[i]) THEN i
    ELSE PositionFrom(attrs, i + 1)

Position(attrs) == PositionFrom(attrs, 1)

\* Vec::remove(idx): the sequence without its idx-th element, order kept.
Remove(s, idx) == SubSeq(s, 1, idx - 1) \o SubSeq(s, idx + 1, Len(s))

\* ExportedFnParams::default() and ExportedFnParams::skip().
ParamsDefault == [skip |-> FALSE, pure |-> FALSE]
ParamsSkip == [skip |-> TRUE, pure |-> FALSE]

\* Attribute::parse_args::<ExportedFnParams>: the modifier grammar.
parse_args(a) ==
    CASE a.args = "skip" -> [ok |-> TRUE, params |-> ParamsSkip]
      [] a.args = "pure" -> [ok |-> TRUE, params |-> [skip |-> FALSE, pure |-> TRUE]]
      [] OTHER -> [ok |-> FALSE, params |-> ParamsDefault]

\* ----------------------------------------------------------------- items

\* A parameter: passing mode ("val", "ref" = &T, "mut" = &mut T) and the
\* type (for a reference, the referenced type).  "&INT" under "ref" is a
\* nested reference, which the signature classifier rejects;
\* "NativeCallContext" is the call context type.
Param(mode, ty) == [mode |-> mode, ty |-> ty]

FnItem(vis, attrs, name, params) ==
    [kind |-> "fn", vis |-> vis, attrs |-> attrs, name |-> name,
     params |-> params, expr |-> 0, inner |-> <<>>]

ConstItem(vis, attrs, name, expr) ==
    [kind |-> "const", vis |-> vis, attrs |-> attrs, name |-> name,
     params |-> <<>>, expr |-> expr, inner |-> <<>>]

UseItem(vis, name) ==
    [kind |-> "use", vis |-> vis, attrs |-> <<>>, name |-> name,
     params |-> <<>>, expr |-> 0, inner |-> <<>>]

\* A nested block with its own items.
ModItem(vis, name, inner) ==
    [kind |-> "mod", vis |-> vis, attrs |-> <<>>, name |-> name,
     params |-> <<>>, expr |-> 0, inner |-> inner]

\* inner_fn_attributes(&mut f): the function after the call (its first
\* rhai_fn attribute removed) and the parameters or the parse failure.
\* Variant: a function without modifier is exported whatever its visibility.
inner_fn_attributes_ignore_vis(f) ==
    LET rhai_fn_idx == Position(f.attrs) IN
    IF rhai_fn_idx # 0
    THEN [f |-> [f EXCEPT !.attrs = Remove(f.attrs, rhai_fn_idx)],
          r |-> parse_args(f.attrs[rhai_fn_idx])]
    ELSE [f |-> f, r |-> [ok |-> TRUE, params |-> ParamsDefault]]

\* Variant: the visibility is tested before the modifier is looked for.
inner_fn_attributes_vis_first(f) ==
    LET rhai_fn_idx == Position(f.attrs) IN
    IF f.vis # "pub"
    THEN [f |-> f, r |-> [ok |-> TRUE, params |-> ParamsSkip]]
    ELSE IF rhai_fn_idx # 0
    THEN [f |-> [f EXCEPT !.attrs = Remove(f.attrs, rhai_fn_idx)],
          r |-> parse_args(f.attrs[rhai_fn_idx])]
    ELSE [f |-> f, r |-> [ok |-> TRUE, params |-> ParamsDefault]]

\* Variant: the modifier is read and left attached.
inner_fn_attributes_keep_attr(f) ==
    LET rhai_fn_idx == Position(f.attrs) IN
    IF rhai_fn_idx # 0
    THEN [f |-> f, r |-> parse_args(f.attrs[rhai_fn_idx])]
    ELSE IF f.vis = "pub"
    THEN [f |-> f, r |-> [ok |-> TRUE, params |-> ParamsDefault]]
    ELSE [f |-> f, r |-> [ok |-> TRUE, params |-> ParamsSkip]]

inner_fn_attributes(f) ==
    LET rhai_fn_idx == Position(f.attrs) IN
    IF rhai_fn_idx # 0
    THEN [f |-> [f EXCEPT !.attrs = Remove(f.attrs, rhai_fn_idx)],
          r |-> parse_args(f.attrs[rhai_fn_idx])]
    ELSE IF f.vis = "pub"
    THEN [f |-> f, r |-> [ok |-> TRUE, params |-> ParamsDefault]]
    ELSE [f |-> f, r |-> [ok |-> TRUE, params |-> ParamsSkip]]

\* The signature classifier's verdict on one parameter.
Classifiable(p) == p.ty # "&INT"

\* A leading parameter of the call context type is supplied by the call
\* interface itself.
IsCallContext(p) == p.mode = "val" /\ p.ty = "NativeCallContext"

\* syn::parse2::<ExportedFn>(itemfn.to_token_stream()): the function's
\* description, or a failure when a parameter cannot be classified.  span is
\* the item's place in the block (ExportedFn::entire_span).
parse2_ExportedFn(f, span) ==
    IF \E i \in 1..Len(f.params) : ~Classifiable(f.params[i])
    THEN [ok |-> FALSE, f |-> [span |-> span]]
    ELSE [ok |-> TRUE,
          f |-> [span |-> span, name |-> f.name, is_public |-> f.vis = "pub",
                 sig |-> f.params,
                 pass_context |-> Len(f.params) > 0 /\ IsCallContext(f.params[1]),
                 params |-> ParamsDefault]]

\* ExportedFn::arg_list: the parameters the script supplies.
arg_list(f) == IF f.pass_context THEN Tail(f.sig) ELSE f.sig

\* ExportedFn::arg_count
arg_count(f) == Len(arg_list(f))

\* ------------------------------------------------------------ Module::parse

\* Variant of the fold: a retained function is put in front of the list.
RECURSIVE FoldFns_prepend(_, _, _)
FoldFns_prepend(content, i, vec) ==
    IF i > Len(content) THEN [ok |-> TRUE, content |-> content, fns |-> vec]
    ELSE IF content[i].kind # "fn" THEN FoldFns_prepend(content, i + 1, vec)
    ELSE LET a == inner_fn_attributes(content[i])
             mutated == [content EXCEPT ![i] = a.f]
             e == parse2_ExportedFn(a.f, i)
             f == [e.f EXCEPT !.params = a.r.params]
         IN IF ~a.r.ok THEN [ok |-> FALSE, content |-> mutated, fns |-> <<>>]
            ELSE IF ~e.ok THEN [ok |-> FALSE, content |-> mutated, fns |-> <<>>]
            ELSE FoldFns_prepend(mutated, i + 1,
                                 IF ~f.params.skip THEN <<f>> \o vec ELSE vec)

\* Variant of the fold: a function that fails to parse is left out and the
\* fold goes on.
RECURSIVE FoldFns_skip_rejected(_, _, _)
FoldFns_skip_rejected(content, i, vec) ==
    IF i > Len(content) THEN [ok |-> TRUE, content |-> content, fns |-> vec]
    ELSE IF content[i].kind # "fn" THEN FoldFns_skip_rejected(content, i + 1, vec)
    ELSE LET a == inner_fn_attributes(content[i])
             mutated == [content EXCEPT ![i] = a.f]
             e == parse2_ExportedFn(a.f, i)
             f == [e.f EXCEPT !.params = a.r.params]
         IN IF ~a.r.ok \/ ~e.ok THEN FoldFns_skip_rejected(mutated, i + 1, vec)
            ELSE FoldFns_skip_rejected(mutated, i + 1,
                                       IF ~f.params.skip THEN Append(vec, f) ELSE vec)

\* Variant of the fold: the skip flag is consulted before the signature is
\* parsed, so a skipped function is never handed to the signature parser.
RECURSIVE FoldFns_skip_before_sig(_, _, _)
FoldFns_skip_before_sig(content, i, vec) ==
    IF i > Len(content) THEN [ok |-> TRUE, content |-> content, fns |-> vec]
    ELSE IF content[i].kind # "fn" THEN FoldFns_skip_before_sig(content, i + 1, vec)
    ELSE LET a == inner_fn_attributes(content[i])
             mutated == [content EXCEPT ![i] = a.f]
             e == parse2_ExportedFn(a.f, i)
             f == [e.f EXCEPT !.params = a.r.params]
         IN IF ~a.r.ok THEN [ok |-> FALSE, content |-> mutated, fns |-> <<>>]
            ELSE IF a.r.params.skip
                 THEN FoldFns_skip_before_sig(mutated, i + 1, vec)
            ELSE IF ~e.ok THEN [ok |-> FALSE, content |-> mutated, fns |-> <<>>]
            ELSE FoldFns_skip_before_sig(mutated, i + 1, Append(vec, f))

\* The try_fold over the function items of the block, from item i on:
\* content is the block as mutated so far, vec the functions retained so
\* far.  A failure ends the fold at once.
RECURSIVE FoldFns(_, _, _)
FoldFns(content, i, vec) ==
    IF i > Len(content) THEN [ok |-> TRUE, content |-> content, fns |-> vec]
    ELSE IF content[i].kind # "fn" THEN FoldFns(content, i + 1, vec)
    ELSE LET a == inner_fn_attributes(content[i])
             mutated == [content EXCEPT ![i] = a.f]
             e == parse2_ExportedFn(a.f, i)
             f == [e.f EXCEPT !.params = a.r.params]
         IN IF ~a.r.ok THEN [ok |-> FALSE, content |-> mutated, fns |-> <<>>]
            ELSE IF ~e.ok THEN [ok |-> FALSE, content |-> mutated, fns |-> <<>>]
            ELSE FoldFns(mutated, i + 1,
                         IF ~f.params.skip THEN Append(vec, f) ELSE vec)

\* Variant: the constants are collected whatever their visibility.
RECURSIVE CollectConsts_any_vis(_, _)
CollectConsts_any_vis(content, i) ==
    IF i > Len(content) THEN <<>>
    ELSE LET item == content[i]
             rest == CollectConsts_any_vis(content, i + 1)
         IN IF item.kind = "const"
            THEN <<[name |-> item.name, expr |-> item.expr]>> \o rest
            ELSE rest

\* The filter_map/collect over the constant items: (ident, expr) of every
\* public constant, in order.
RECURSIVE CollectConsts(_, _)
CollectConsts(content, i) ==
    IF i > Len(content) THEN <<>>
    ELSE LET item == content[i]
             rest == CollectConsts(content, i + 1)
         IN IF item.kind = "const" /\ item.vis = "pub"
            THEN <<[name |-> item.name, expr |-> item.expr]>> \o rest
            ELSE rest

\* The parse of one module declaration.  m is the syn::ItemMod read from
\* the input: vis, ident, and content (a sequence holding the block when the
\* declaration has an inline body, empty for `mod name;`).  The result is
\* Ok(Module) as a one-element sequence, Err as the empty sequence.
Module_parse(m) ==
    IF Len(m.content) = 1
    THEN LET folded == FoldFns(m.content[1], 1, <<>>) IN
         IF ~folded.ok THEN <<>>
         ELSE <<[mod_all |-> [m EXCEPT !.content = <<folded.content>>],
                 fns |-> folded.fns,
                 consts |-> CollectConsts(folded.content, 1)]>>
    ELSE <<[mod_all |-> m, fns |-> <<>>, consts |-> <<>>]>>

\* --------------------------------------------------------- generated code

\* The type token a parameter is registered under: the declared type, for a
\* reference the referenced type, and ImmutableString for &str.
TypeToken(p) ==
    IF p.mode = "ref" /\ p.ty = "str" THEN "ImmutableString" ELSE p.ty

\* The type list of the set_fn call (core::any::TypeId::of::<T>() per
\* parameter the script supplies).
set_fn_types(f) == [i \in 1..arg_count(f) |-> TypeToken(arg_list(f)[i])]

\* Variant: the call context parameter is listed too.
input_types_with_context(f) == [i \in 1..Len(f.sig) |-> TypeToken(f.sig[i])]

\* The list the dispatcher's input_types() returns (TypeId::of::<T>() per
\* parameter the script supplies).
input_types(f) == [i \in 1..arg_count(f) |-> TypeToken(arg_list(f)[i])]

\* Variant: any &mut parameter makes a method call.
is_method_call_any_mut(f) ==
    \E i \in 1..arg_count(f) : arg_list(f)[i].mode = "mut"

\* The dispatcher's is_method_call(): the first parameter the script
\* supplies is &mut.
is_method_call(f) == arg_count(f) > 0 /\ arg_list(f)[1].mode = "mut"

\* The dispatcher type <name>_token and its PluginFunction implementation.
Dispatcher(f) ==
    [token |-> f.name, arg_count |-> arg_count(f),
     is_method_call |-> is_method_call(f), input_types |-> input_types(f)]

\* crate::rhai_module::generate_body: rhai_module_generate with one set_var
\* per constant and one set_fn per function, then per function the
\* dispatcher and its two accessors (<name>_token_callable and
\* <name>_token_input_types).
generate_body(fns, consts) ==
    [kind |-> "gen",
     set_vars |-> [i \in 1..Len(consts) |-> consts[i]],
     set_fns |-> [i \in 1..Len(fns) |->
                     [name |-> fns[i].name, types |-> set_fn_types(fns[i])]],
     dispatchers |-> [i \in 1..Len(fns) |-> Dispatcher(fns[i])],
     accessors |-> [i \in 1..Len(fns) |-> fns[i].name]]

\* Variant: the generated code is emitted before the original items.
Module_generate_gen_first(self) ==
    LET mod_gen == generate_body(self.fns, self.consts)
        mod_name == self.mod_all.ident
        orig_content == self.mod_all.content[1]
    IN [vis |-> "pub", attrs |-> <<>>, ident |-> mod_name,
        body |-> <<mod_gen>> \o orig_content]

\* Variant: the unit is emitted under the visibility of the declaration.
Module_generate_keep_vis(self) ==
    LET mod_gen == generate_body(self.fns, self.consts)
        mod_name == self.mod_all.ident
        orig_content == self.mod_all.content[1]
    IN [vis |-> self.mod_all.vis, attrs |-> <<>>, ident |-> mod_name,
        body |-> orig_content \o <<mod_gen>>]

\* Module::generate on a module with an inline body: pub mod #mod_name
\* { #(#orig_content)* #mod_gen }.  The unit is written with the literal
\* `pub` and without outer attributes.
Module_generate(self) ==
    LET mod_gen == generate_body(self.fns, self.consts)
        mod_name == self.mod_all.ident
        orig_content == self.mod_all.content[1]
    IN [vis |-> "pub", attrs |-> <<>>, ident |-> mod_name,
        body |-> orig_content \o <<mod_gen>>]

\* ------------------------------------------------- the core language package

\* Width of Tag: i16 on 32-bit targets (i32 on 64-bit ones); INT is wider.
TagBits == 16
TagMIN == -(2 ^ (TagBits - 1))
TagMAX == 2 ^ (TagBits - 1) - 1

\* `tag as Tag`: the low TagBits bits of the integer, as a signed number.
AsTag(n) == ((n + 2 ^ (TagBits - 1)) % (2 ^ TagBits)) - 2 ^ (TagBits - 1)

\* `value.tag() as INT`: sign extension, which keeps the number.
AsINT(t) == t

\* Position::NONE
PositionNONE == 0

\* A Dynamic: its type, its data and its tag.  Dynamic::UNIT is what
\* mem::take leaves behind (Default for Dynamic).
Dynamic(ty, data, tag) == [ty |-> ty, data |-> data, tag |-> tag]
DynamicUNIT == Dynamic("()", 0, 0)
DynamicFromINT(n) == Dynamic("INT", n, 0)

\* ERR::ErrorArithmetic(format!(..), Position::NONE)
ErrorArithmetic(what, tag, pos) ==
    [variant |-> "ErrorArithmetic",
     msg |-> [tag |-> tag, what |-> what, min |-> TagMIN, max |-> TagMAX],
     pos |-> pos]

\* core_functions::get_tag
get_tag(value) == AsINT(value.tag)

\* Variant: the lower limit is not tested.
set_tag_no_lower_limit(value, tag) ==
    IF tag > AsINT(TagMAX)
    THEN [ok |-> FALSE, value |-> value,
          err |-> ErrorArithmetic("too large", tag, PositionNONE)]
    ELSE [ok |-> TRUE, value |-> [value EXCEPT !.tag = AsTag(tag)],
          err |-> <<>>]

\* Variant: the upper limit is not tested.
set_tag_no_upper_limit(value, tag) ==
    IF tag < AsINT(TagMIN)
    THEN [ok |-> FALSE, value |-> value,
          err |-> ErrorArithmetic("too small", tag, PositionNONE)]
    ELSE [ok |-> TRUE, value |-> [value EXCEPT !.tag = AsTag(tag)],
          err |-> <<>>]

\* core_functions::set_tag: the value after the call and Ok(()) or the error.
set_tag(value, tag) ==
    IF tag < AsINT(TagMIN)
    THEN [ok |-> FALSE, value |-> value,
          err |-> ErrorArithmetic("too small", tag, PositionNONE)]
    ELSE IF tag > AsINT(TagMAX)
    THEN [ok |-> FALSE, value |-> value,
          err |-> ErrorArithmetic("too large", tag, PositionNONE)]
    ELSE [ok |-> TRUE, value |-> [value EXCEPT !.tag = AsTag(tag)],
          err |-> <<>>]

\* A dispatcher's failure: the function's error, tagged with the position
\* of the call.
Failure(err, pos) == [kind |-> "err", val |-> DynamicUNIT, err |-> [err EXCEPT !.pos = pos]]
Success(val) == [kind |-> "ok", val |-> val, err |-> <<>>]

\* set_tag_token::call(args, pos): args[1] is borrowed in place, args[2] is
\* moved out and cast to INT; the function's result is returned as it is
\* (return_raw), an error as a Failure.
call_set_tag(args, pos) ==
    LET arg1 == args[2].data
        taken == [args EXCEPT ![2] = DynamicUNIT]
        r == set_tag(taken[1], arg1)
    IN [args |-> [taken EXCEPT ![1] = r.value],
        result |-> IF r.ok THEN Success(DynamicUNIT) ELSE Failure(r.err, pos)]

\* get_tag_token::call(args, pos): args[1] is borrowed in place; the plain
\* return value is boxed.
call_get_tag(args, pos) ==
    [args |-> args, result |-> Success(DynamicFromINT(get_tag(args[1])))]

\* ---------------------------------------------------- function metadata

\* Strings are sequences of characters.  crate::engine::FN_ANONYMOUS is the
\* prefix of the names given to anonymous functions, and
\* Token::DoubleColon.literal_syntax() the separator of namespace paths.
FN_ANONYMOUS == <<"a", "n", "o", "n", "$">>
DoubleColon == <<":", ":">>

\* str::starts_with
starts_with(s, prefix) ==
    Len(s) >= Len(prefix) /\ SubSeq(s, 1, Len(prefix)) = prefix

\* format!("{}{}{}", a, b, c)
format3(a, b, c) == a \o b \o c

\* The modules a call context can see are held in a sequence ctx; module i
\* is [kind, parent, name, fns]:
\*   kind "own"     one of the context's namespaces (iter_namespaces),
\*   kind "import"  imported under name (iter_imports_raw),
\*   kind "sub"     the sub-module called name of module parent,
\* and fns lists its functions in the module's iteration order, each
\* [name, access, params, script] with script TRUE for a script-defined
\* function.  Iteration follows the order of ctx.

\* Module::iter_script_fn: the script-defined functions of a module.
iter_script_fn(module) == SelectSeq(module.fns, LAMBDA f : f.script)

\* The members of a set of indices in the order of iteration.
RECURSIVE InOrder(_)
InOrder(S) ==
    IF S = {} THEN <<>>
    ELSE LET first == CHOOSE x \in S : \A y \in S : x <= y
         IN <<first>> \o InOrder(S \ {first})

\* Module::iter_sub_modules of module m.
iter_sub_modules(ctx, m) ==
    InOrder({j \in 1..Len(ctx) : ctx[j].kind = "sub" /\ ctx[j].parent = m})

\* NativeCallContext::iter_namespaces and NativeCallContext::iter_imports_raw
iter_namespaces(ctx) == InOrder({j \in 1..Len(ctx) : ctx[j].kind = "own"})
iter_imports_raw(ctx) == InOrder({j \in 1..Len(ctx) : ctx[j].kind = "import"})

\* Variant: a name is anonymous only when it is the prefix itself.
make_metadata_anonymous_if_equal(namespace, func) ==
    LET access == IF func.access = "Public" THEN "public" ELSE "private"
        is_anonymous == func.name = FN_ANONYMOUS
    IN IF namespace # <<>>
       THEN [namespace |-> namespace[1], name |-> func.name, access |-> access,
             is_anonymous |-> is_anonymous, params |-> func.params]
       ELSE [name |-> func.name, access |-> access,
             is_anonymous |-> is_anonymous, params |-> func.params]

\* make_metadata: the record of one function.  namespace is <<ns>> for
\* Some(ns) and <<>> for None; the Map is a record over the keys inserted.
make_metadata(namespace, func) ==
    LET access == IF func.access = "Public" THEN "public" ELSE "private"
        is_anonymous == starts_with(func.name, FN_ANONYMOUS)
    IN IF namespace # <<>>
       THEN [namespace |-> namespace[1], name |-> func.name, access |-> access,
             is_anonymous |-> is_anonymous, params |-> func.params]
       ELSE [name |-> func.name, access |-> access,
             is_anonymous |-> is_anonymous, params |-> func.params]

\* list.push(make_metadata(..)) for each function of fs.
push_all(list, namespace, fs) ==
    list \o [k \in 1..Len(fs) |-> make_metadata(namespace, fs[k])]

\* Variant: the sub-modules are not scanned.
RECURSIVE scan_module_no_recursion(_, _, _, _)
scan_module_no_recursion(ctx, list, namespace, module) ==
    push_all(list, <<namespace>>, iter_script_fn(ctx[module]))

\* Variant: the sub-modules are scanned before the module's own functions.
RECURSIVE scan_module_subs_first(_, _, _, _)
scan_module_subs_first(ctx, list, namespace, module) ==
    LET subs == iter_sub_modules(ctx, module)
        RECURSIVE for_each(_, _)
        for_each(l, j) ==
            IF j > Len(subs) THEN l
            ELSE LET ns == format3(namespace, DoubleColon, ctx[subs[j]].name)
                 IN for_each(scan_module_subs_first(ctx, l, ns, subs[j]), j + 1)
    IN push_all(for_each(list, 1), <<namespace>>, iter_script_fn(ctx[module]))

\* scan_module: the list with the records of the module's own script
\* functions pushed, then those of each sub-module in turn, scanned under
\* the namespace extended by the separator and the sub-module's name.
RECURSIVE scan_module(_, _, _, _)
scan_module(ctx, list, namespace, module) ==
    LET own == push_all(list, <<namespace>>, iter_script_fn(ctx[module]))
        subs == iter_sub_modules(ctx, module)
        RECURSIVE for_each(_, _)
        for_each(l, j) ==
            IF j > Len(subs) THEN l
            ELSE LET ns == format3(namespace, DoubleColon, ctx[subs[j]].name)
                 IN for_each(scan_module(ctx, l, ns, subs[j]), j + 1)
    IN for_each(own, 1)

\* collect_fn_metadata: the fold over the script functions of the context's
\* namespaces, without namespace, then scan_module for each import.
collect_fn_metadata(ctx) ==
    LET namespaces == iter_namespaces(ctx)
        imports == iter_imports_raw(ctx)
        RECURSIVE fold(_, _)
        fold(l, j) ==
            IF j > Len(namespaces) THEN l
            ELSE fold(push_all(l, <<>>, iter_script_fn(ctx[namespaces[j]])), j + 1)
        RECURSIVE for_each(_, _)
        for_each(l, j) ==
            IF j > Len(imports) THEN l
            ELSE for_each(scan_module(ctx, l, ctx[imports[j]].name, imports[j]),
                          j + 1)
    IN for_each(fold(<<>>, 1), 1)

\* The body of an exported native function, as far as its arguments go: a
\* value behind a &mut parameter is updated in place (increment does
\* *x += 1.0), the others are the function's own; the return value is made
\* from the arguments read, in order.
native_fn(ps, passed) ==
    [after |-> [i \in 1..Len(ps) |->
                   IF ps[i].mode = "mut"
                   THEN [passed[i] EXCEPT !.data = @ + 1]
                   ELSE passed[i]],
     ret |-> Dynamic("ret", [i \in 1..Len(ps) |-> passed[i].data], 0)]

\* Variant: every slot is emptied with mem::take, a &mut one too, and the
\* native function works on the value taken.
dispatcher_call_take_all(f, args, pos) ==
    LET ps == arg_list(f)
        passed == [i \in 1..Len(ps) |-> args[i]]
        r == native_fn(ps, passed)
    IN [args |-> [i \in 1..Len(args) |-> DynamicUNIT],
        passed |-> passed,
        result |-> Success(r.ret)]

\* <name>_token::call(args, pos) of a generated dispatcher: one statement
\* per parameter the script supplies, argN from args[N]:
\*   by value, &str   let argN = mem::take(args[N]).clone().cast::<T>();
\*   &mut             let argN: &mut _ = &mut args[N].write_lock::<T>().unwrap();
\* then Ok(Dynamic::from(f(arg0, ..))).  args holds arg_count(f) slots
\* (debug_assert_eq!).  The result gives the slots after the call, the
\* arguments handed to the native function and the return value.
dispatcher_call(f, args, pos) ==
    LET ps == arg_list(f)
        passed == [i \in 1..Len(ps) |-> args[i]]
        r == native_fn(ps, passed)
    IN [args |-> [i \in 1..Len(args) |->
                     IF ps[i].mode = "mut" THEN r.after[i] ELSE DynamicUNIT],
        passed |-> passed,
        result |-> Success(r.ret)]

\* ------------------------------------------------------------------ inputs

rhai_fn(args) == Attr("rhai_fn", args)
cfg == Attr("cfg", "")

Vis == {"pub", "priv"}

\* Attribute lists of the enumerated functions: none, a skip modifier, a
\* non-skip modifier after another attribute, a malformed modifier, and two
\* modifiers.
FnAttrs ==
    {<<>>, <<rhai_fn("skip")>>, <<cfg, rhai_fn("pure")>>,
     <<rhai_fn("bad")>>, <<rhai_fn("pure"), rhai_fn("skip")>>}

\* Parameters a script supplies, and the call context parameter.
ParamKinds ==
    {Param("val", "INT"), Param("val", "FLOAT"), Param("ref", "str"),
     Param("mut", "FLOAT"), Param("ref", "&INT")}

ContextParam == Param("val", "NativeCallContext")

Items ==
    {FnItem(v, a, "f", <<>>) : v \in Vis, a \in FnAttrs}
    \cup {FnItem(v, a, "g", <<Param("ref", "&INT")>>) :
             v \in Vis, a \in {<<>>, <<rhai_fn("skip")>>}}
    \cup {ConstItem(v, <<>>, "X", 42) : v \in Vis}
    \cup {ConstItem(v, <<rhai_fn("pure")>>, "Y", 7) : v \in Vis}
    \cup {UseItem("pub", "INT")}
    \cup {ModItem("pub", "inner", <<FnItem("pub", <<rhai_fn("pure")>>, "f", <<>>)>>)}

SeqsUpTo(S, n) == UNION {[1..k -> S] : k \in 0..n}

\* Blocks of items, and one-function blocks over all parameter lists, with
\* and without a leading call context parameter.
Blocks == SeqsUpTo(Items, MaxItems)

SigBlocks ==
    {<<FnItem("pub", <<>>, "f", c \o ps)>> :
        c \in {<<>>, <<ContextParam>>}, ps \in SeqsUpTo(ParamKinds, MaxParams)}

\* A module declaration: outer attributes, visibility, name, and the block
\* when it has an inline body.
ItemMod(vis, attrs, ident, content) ==
    [vis |-> vis, attrs |-> attrs, ident |-> ident, content |-> content]

\* What precedes the body: every head for the one-function blocks and the
\* declarations without body, and for the blocks of items a public module
\* without attributes and a private one with an attribute and another name.
ModAttrs == {<<>>, <<cfg>>}
ModNames == {"m", "n"}
ModHeads ==
    {[vis |-> v, attrs |-> a, ident |-> n] :
        v \in Vis, a \in ModAttrs, n \in ModNames}
BlockHeads ==
    {[vis |-> "pub", attrs |-> <<>>, ident |-> "m"],
     [vis |-> "priv", attrs |-> <<cfg>>, ident |-> "n"]}

BlockInputs ==
    {ItemMod(h.vis, h.attrs, h.ident, <<b>>) : h \in BlockHeads, b \in Blocks}
SigInputs ==
    {ItemMod(h.vis, h.attrs, h.ident, <<b>>) : h \in ModHeads, b \in SigBlocks}
BodilessInputs == {ItemMod(h.vis, h.attrs, h.ident, <<>>) : h \in ModHeads}

\* Functions held by modules: a public one with two parameters, an anonymous
\* one, a private one whose name is the start of the anonymous prefix, and a
\* native one.
FnFoo ==
    [name |-> <<"f", "o", "o">>, access |-> "Public",
     params |-> << <<"x">>, <<"y">> >>, script |-> TRUE]
FnAnon ==
    [name |-> <<"a", "n", "o", "n", "$", "1">>, access |-> "Public",
     params |-> << <<"x">> >>, script |-> TRUE]
FnPriv ==
    [name |-> <<"a", "n", "o", "n">>, access |-> "Private",
     params |-> <<>>, script |-> TRUE]
FnNative ==
    [name |-> <<"n", "a", "t">>, access |-> "Public",
     params |-> << <<"x">> >>, script |-> FALSE]

FnLists == {<<>>, <<FnFoo, FnAnon>>, <<FnNative, FnPriv>>}

\* The name of the i-th module of a context.
ModuleNames == <<"a", "b", "c", "d", "e", "f", "g", "h">>

\* What the i-th module of a context may be: a namespace of the context, an
\* import, or a sub-module of an earlier module.
ModulesAt(i) ==
    {[kind |-> k, parent |-> 0, name |-> <<ModuleNames[i]>>, fns |-> fs] :
        k \in {"own", "import"}, fs \in FnLists}
    \cup {[kind |-> "sub", parent |-> j, name |-> <<ModuleNames[i]>>, fns |-> fs] :
              j \in 1..(i - 1), fs \in FnLists}

\* The contexts of n modules.
RECURSIVE ContextsOf(_)
ContextsOf(n) ==
    IF n = 0 THEN {<<>>}
    ELSE {Append(c, m) : c \in ContextsOf(n - 1), m \in ModulesAt(n)}

\* Tags a script passes to set_tag: the limits, their neighbours and values
\* in between.
TagInputs == {TagMIN - 1, TagMIN, -1, 0, 1, TagMAX, TagMAX + 1, 2 ^ TagBits + 1}

\* Positions of call sites.
Positions == 1..MaxPos

\* ------------------------------------------------------------------- state

VARIABLES
    input,    \* the module declaration handed to the macro
    pc,       \* "input", "parsed", "failed", "generated", "panicked"
    module,   \* the result of Module::parse: <<Module>> or <<>>
    out,      \* the generated unit: <<unit>> or <<>>
    values,   \* the Dynamic held by each variable of the running script
    call,     \* the last dispatcher call: function, variable, tag, position
    args,     \* the argument slots after the last call
    result,   \* what the last call returned
    ctx,      \* the modules the call context of get_fn_metadata_list sees
    list      \* the array get_fn_metadata_list returned

genVars == <<input, pc, module, out>>
coreVars == <<values, call, args, result>>
metaVars == <<ctx, list>>
vars == <<input, pc, module, out, values, call, args, result, ctx, list>>

Vars == 1..MaxVars

NoCall == [fn |-> "none", var |-> 0, tag |-> 0, pos |-> PositionNONE]
NoResult == [kind |-> "none", val |-> DynamicUNIT, err |-> <<>>]

CoreInit ==
    /\ values = [v \in Vars |-> Dynamic("obj", v, 0)]
    /\ call = NoCall
    /\ args = <<>>
    /\ result = NoResult

\* No context is looked at.
MetaIdle ==
    /\ ctx = <<>>
    /\ list = <<>>

Init ==
    /\ \/ input \in BlockInputs
       \/ input \in SigInputs
       \/ input \in BodilessInputs
    /\ pc = "input"
    /\ module = <<>>
    /\ out = <<>>
    /\ CoreInit
    /\ MetaIdle

\* syn::parse2::<Module>(input_tokens)
Parse ==
    /\ pc = "input"
    /\ module' = Module_parse(input)
    /\ pc' = IF module' = <<>> THEN "failed" ELSE "parsed"
    /\ UNCHANGED <<input, out>>
    /\ UNCHANGED coreVars
    /\ UNCHANGED metaVars

\* item_mod.generate(); mod_all.content.take().unwrap() panics on a
\* declaration without a body.
Generate ==
    /\ pc = "parsed"
    /\ IF Len(module[1].mod_all.content) = 1
       THEN out' = <<Module_generate(module[1])>> /\ pc' = "generated"
       ELSE out' = <<>> /\ pc' = "panicked"
    /\ UNCHANGED <<input, module>>
    /\ UNCHANGED coreVars
    /\ UNCHANGED metaVars

Next == Parse \/ Generate

Spec == Init /\ [][Next]_vars

\* A script calls set_tag(v, tag) at position pos: the engine passes the
\* variable itself (the first slot refers to it) and a temporary holding
\* the tag.
CallSetTag ==
    \E v \in Vars, tag \in TagInputs, pos \in Positions :
        LET c == call_set_tag(<<values[v], DynamicFromINT(tag)>>, pos) IN
        /\ call' = [fn |-> "set_tag", var |-> v, tag |-> tag, pos |-> pos]
        /\ args' = c.args
        /\ values' = [values EXCEPT ![v] = c.args[1]]
        /\ result' = c.result
        /\ UNCHANGED genVars
        /\ UNCHANGED metaVars

\* A script reads v.tag at position pos.
CallGetTag ==
    \E v \in Vars, pos \in Positions :
        LET c == call_get_tag(<<values[v]>>, pos) IN
        /\ call' = [fn |-> "get_tag", var |-> v, tag |-> 0, pos |-> pos]
        /\ args' = c.args
        /\ values' = [values EXCEPT ![v] = c.args[1]]
        /\ result' = c.result
        /\ UNCHANGED genVars
        /\ UNCHANGED metaVars

\* The core package at run time; no declaration block is involved.
InitCore ==
    /\ input = ItemMod("pub", <<>>, "core_functions", <<>>)
    /\ pc = "registered"
    /\ module = <<>>
    /\ out = <<>>
    /\ CoreInit
    /\ MetaIdle

NextCore == CallSetTag \/ CallGetTag

SpecCore == InitCore /\ [][NextCore]_vars

\* The data of the arguments a script passes to an exported function.
ArgData == {1, 2}

\* The argument lists the engine builds for a call of f: one slot per
\* parameter the script supplies, holding a value of the registered type.
ArgLists(f) ==
    {[i \in 1..arg_count(f) |-> Dynamic(TypeToken(arg_list(f)[i]), d[i], 0)] :
        d \in [1..arg_count(f) -> ArgData]}

\* A script calls the function exported by a one-function block, through the
\* dispatcher registered for it.
CallDispatcher ==
    /\ pc = "generated"
    /\ Len(module[1].fns) = 1
    /\ \E slots \in ArgLists(module[1].fns[1]), pos \in Positions :
        LET c == dispatcher_call(module[1].fns[1], slots, pos) IN
        /\ call' = [fn |-> module[1].fns[1].name, var |-> 0, tag |-> 0,
                    pos |-> pos, slots |-> slots, passed |-> c.passed]
        /\ args' = c.args
        /\ result' = c.result
    /\ pc' = "called"
    /\ UNCHANGED <<input, module, out, values>>
    /\ UNCHANGED metaVars

\* The macro applied to a one-function block, and the function called.
InitCall ==
    /\ input \in {ItemMod("pub", <<>>, "m", <<b>>) : b \in SigBlocks}
    /\ pc = "input"
    /\ module = <<>>
    /\ out = <<>>
    /\ CoreInit
    /\ MetaIdle

NextCall == Parse \/ Generate \/ CallDispatcher

SpecCall == InitCall /\ [][NextCall]_vars

\* A script calls get_fn_metadata_list() in a context that sees ctx.
GetFnMetadataList ==
    /\ pc = "ready"
    /\ list' = collect_fn_metadata(ctx)
    /\ pc' = "collected"
    /\ UNCHANGED <<input, module, out, ctx>>
    /\ UNCHANGED coreVars

InitMeta ==
    /\ input = ItemMod("pub", <<>>, "core_functions", <<>>)
    /\ pc = "ready"
    /\ module = <<>>
    /\ out = <<>>
    /\ CoreInit
    /\ \E n \in 0..MaxModules : ctx \in ContextsOf(n)
    /\ list = <<>>

NextMeta == GetFnMetadataList

SpecMeta == InitMeta /\ [][NextMeta]_vars

\* ------------------------------------------------- vocabulary of the claims

\* The block of the input declaration, and the states where the parse has
\* accepted it.
HasBody == Len(input.content) = 1
Block == input.content[1]
Accepted == HasBody /\ pc \in {"parsed", "generated"}
Generated == pc = "generated" /\ out # <<>>
GenCode == out[1].body[Len(out[1].body)]

\* The modifier of a function item is the rhai_fn annotation that is read
\* for it: the first one in its attribute list.
HasModifier(it) == \E k \in 1..Len(it.attrs) : it.attrs[k].path = "rhai_fn"
ModifierIdx(it) ==
    CHOOSE k \in 1..Len(it.attrs) :
        /\ it.attrs[k].path = "rhai_fn"
        /\ \A j \in 1..(k - 1) : it.attrs[j].path # "rhai_fn"
Modifier(it) == it.attrs[ModifierIdx(it)].args

IsFn(i) == Block[i].kind = "fn"
IsPubConst(i) == Block[i].kind = "const" /\ Block[i].vis = "pub"

\* A function item the claims call skipped: an explicit skip modifier, or
\* not public and no modifier.
SkippedFn(i) ==
    /\ IsFn(i)
    /\ IF HasModifier(Block[i]) THEN Modifier(Block[i]) = "skip"
       ELSE Block[i].vis # "pub"
KeptFn(i) == IsFn(i) /\ ~SkippedFn(i)

\* A function item whose modifier is malformed or whose signature cannot be
\* classified.
RejectedFn(i) ==
    /\ IsFn(i)
    /\ \/ HasModifier(Block[i]) /\ Modifier(Block[i]) \notin {"skip", "pure"}
       \/ \E j \in 1..Len(Block[i].params) : Block[i].params[j].ty = "&INT"

\* The k-th index (in increasing order) of the indices satisfying P.
Nth(P(_), k) ==
    CHOOSE i \in 1..Len(Block) :
        P(i) /\ Cardinality({j \in 1..i : P(j)}) = k
Count(P(_)) == Cardinality({i \in 1..Len(Block) : P(i)})

Retained(i) == \E k \in 1..Len(module[1].fns) : module[1].fns[k].span = i

\* -------------------------------------------------------------------- C1

\* C1: in every accepted block a function item with an explicit skip
\* modifier, or not public and without modifier, has no entry in Module.fns;
\* and the generated code holds exactly one set_fn call, one dispatcher and
\* one pair of accessors per entry of Module.fns, named after it, so none
\* for a skipped function.
C1_SkippedFnNotExported ==
    Accepted =>
        /\ \A i \in 1..Len(Block) : SkippedFn(i) => ~Retained(i)
        /\ Len(module[1].fns) = Count(KeptFn)
        /\ Generated =>
            /\ Len(GenCode.set_fns) = Count(KeptFn)
            /\ Len(GenCode.dispatchers) = Count(KeptFn)
            /\ Len(GenCode.accessors) = Count(KeptFn)
            /\ \A k \in 1..Count(KeptFn) :
                /\ GenCode.set_fns[k].name = Block[Nth(KeptFn, k)].name
                /\ GenCode.dispatchers[k].token = Block[Nth(KeptFn, k)].name
                /\ GenCode.accessors[k] = Block[Nth(KeptFn, k)].name

\* A generated block holding an explicitly skipped function, a private
\* function without modifier and an exported function.
C1_Witness ==
    /\ Generated
    /\ \E i, j, k \in 1..Len(Block) :
        /\ IsFn(i) /\ HasModifier(Block[i]) /\ Modifier(Block[i]) = "skip"
        /\ IsFn(j) /\ ~HasModifier(Block[j]) /\ Block[j].vis # "pub"
        /\ KeptFn(k)

\* -------------------------------------------------------------------- C2

\* The number of entries of a sequence equal to e.
Occurrences(seq, e) == Cardinality({k \in 1..Len(seq) : seq[k] = e})
ConstEntry(i) == [name |-> Block[i].name, expr |-> Block[i].expr]

\* C2: in every accepted block each public constant item yields exactly one
\* entry of Module.consts and one set_var call, under its name and with its
\* value expression (a pair declared n times is held n times); non-public
\* constants yield nothing, whatever their annotations.
C2_PublicConstsRegisteredOnce ==
    Accepted =>
        /\ Len(module[1].consts) = Count(IsPubConst)
        /\ \A i \in 1..Len(Block) : IsPubConst(i) =>
              Occurrences(module[1].consts, ConstEntry(i))
                  = Cardinality({j \in 1..Len(Block) :
                                    IsPubConst(j) /\ ConstEntry(j) = ConstEntry(i)})
        /\ Generated =>
            /\ Len(GenCode.set_vars) = Count(IsPubConst)
            /\ \A i \in 1..Len(Block) : IsPubConst(i) =>
                  Occurrences(GenCode.set_vars, ConstEntry(i))
                      = Cardinality({j \in 1..Len(Block) :
                                        IsPubConst(j) /\ ConstEntry(j) = ConstEntry(i)})

\* A generated block with a public constant and an annotated non-public one.
C2_Witness ==
    /\ Generated
    /\ \E i, j \in 1..Len(Block) :
        /\ IsPubConst(i)
        /\ Block[j].kind = "const" /\ Block[j].vis # "pub" /\ Block[j].attrs # <<>>
    /\ Len(GenCode.set_vars) = 1

\* -------------------------------------------------------------------- C3

\* C3: Module.fns is the sequence of the non-skipped function items directly
\* inside the block, in declaration order, and Module.consts the sequence of
\* the public constant items in declaration order; items of nested blocks
\* are not extracted and equal names are all kept.
C3_DeclarationOrderKept ==
    Accepted =>
        /\ Len(module[1].fns) = Count(KeptFn)
        /\ \A k \in 1..Count(KeptFn) :
            /\ module[1].fns[k].span = Nth(KeptFn, k)
            /\ module[1].fns[k].name = Block[Nth(KeptFn, k)].name
            /\ module[1].fns[k].sig = Block[Nth(KeptFn, k)].params
        /\ Len(module[1].consts) = Count(IsPubConst)
        /\ \A k \in 1..Count(IsPubConst) :
              module[1].consts[k] = ConstEntry(Nth(IsPubConst, k))

\* An accepted block with two retained functions of one name and different
\* modifiers and a nested block (holding an exportable function) between
\* them.
C3_Witness ==
    /\ pc = "parsed" /\ HasBody
    /\ \E i, j, n \in 1..Len(Block) :
        /\ i < n /\ n < j
        /\ KeptFn(i) /\ KeptFn(j) /\ Block[n].kind = "mod"
        /\ Block[i].name = Block[j].name
        /\ Block[i].attrs # Block[j].attrs
    /\ Len(module[1].fns) = 2

\* -------------------------------------------------------------------- C4

\* C4: when a function item of the block has a malformed modifier or a
\* signature that cannot be classified, the parse fails: no Module exists
\* and nothing is ever generated.
C4_FailFast ==
    (HasBody /\ pc # "input" /\ \E i \in 1..Len(Block) : RejectedFn(i)) =>
        pc = "failed" /\ module = <<>> /\ out = <<>>

\* A failed parse where an exportable function and a public constant precede
\* the rejected function.
C4_Witness ==
    /\ pc = "failed"
    /\ \E i, j, k \in 1..Len(Block) :
        /\ i < k /\ j < k
        /\ KeptFn(i) /\ ~RejectedFn(i) /\ IsPubConst(j) /\ RejectedFn(k)

\* -------------------------------------------------------------------- C5

\* Whether a function item, at any depth of an emitted item, carries a
\* rhai_fn annotation.
RECURSIVE FnCarriesRhaiFn(_)
FnCarriesRhaiFn(it) ==
    \/ it.kind = "fn" /\ \E k \in 1..Len(it.attrs) : it.attrs[k].path = "rhai_fn"
    \/ \E n \in 1..Len(it.inner) : FnCarriesRhaiFn(it.inner[n])

\* C5 as claimed: the rhai_fn annotation of every function item is removed
\* from the emitted declaration, so that no function of the generated output
\* of an accepted block carries a rhai_fn annotation.
C5_NoRhaiFnInOutput ==
    Generated =>
        \A i \in 1..Len(Block) : ~FnCarriesRhaiFn(out[1].body[i])

RhaiFnAttrs(attrs) == SelectSeq(attrs, LAMBDA a : a.path = "rhai_fn")
OtherAttrs(attrs) == SelectSeq(attrs, LAMBDA a : a.path # "rhai_fn")

\* C5 (amended): of every function item directly inside the block the first
\* rhai_fn annotation, and only that, is removed from the emitted
\* declaration: its further rhai_fn annotations and its other attributes
\* stay, in order, and items that are not functions of the block (nested
\* blocks with their annotated functions among them) are emitted as written.
C5_FirstModifierRemoved ==
    Generated =>
        \A i \in 1..Len(Block) :
            IF IsFn(i)
            THEN /\ OtherAttrs(out[1].body[i].attrs) = OtherAttrs(Block[i].attrs)
                 /\ HasModifier(Block[i]) =>
                        RhaiFnAttrs(out[1].body[i].attrs)
                            = Tail(RhaiFnAttrs(Block[i].attrs))
                 /\ ~HasModifier(Block[i]) => out[1].body[i].attrs = Block[i].attrs
            ELSE out[1].body[i] = Block[i]

\* A generated block with a function carrying two rhai_fn annotations, of
\* which the second is emitted, and a nested block whose function keeps its
\* annotation.
C5_Witness ==
    /\ Generated
    /\ \E i, j \in 1..Len(Block) :
        /\ IsFn(i) /\ Len(RhaiFnAttrs(Block[i].attrs)) = 2
        /\ Len(RhaiFnAttrs(out[1].body[i].attrs)) = 1
        /\ Block[j].kind = "mod" /\ FnCarriesRhaiFn(out[1].body[j])

\* -------------------------------------------------------------------- C6

\* The attribute list without its first rhai_fn annotation.
WithoutModifier(attrs) ==
    LET k == CHOOSE n \in 1..Len(attrs) :
                 /\ attrs[n].path = "rhai_fn"
                 /\ \A j \in 1..(n - 1) : attrs[j].path # "rhai_fn"
    IN [j \in 1..(Len(attrs) - 1) |-> IF j < k THEN attrs[j] ELSE attrs[j + 1]]

\* C6: the generated unit holds every item of the original block, in the
\* original order, each unchanged except that a function item of the block
\* has lost its modifier annotation, and after them the generated
\* registration code; nothing is dropped, duplicated or reordered.
C6_OriginalItemsKept ==
    Generated =>
        /\ Len(out[1].body) = Len(Block) + 1
        /\ GenCode.kind = "gen"
        /\ \A i \in 1..Len(Block) :
              out[1].body[i] =
                  IF IsFn(i) /\ HasModifier(Block[i])
                  THEN [Block[i] EXCEPT !.attrs = WithoutModifier(Block[i].attrs)]
                  ELSE Block[i]

\* A generated block with an import, a private constant, a skipped function
\* whose modifier follows another attribute, or an exported function: three
\* items of different kinds, one of them a function that lost its modifier.
C6_Witness ==
    /\ Generated
    /\ Len(Block) = 3
    /\ \E i, j, k \in 1..Len(Block) :
        /\ Block[i].kind = "use"
        /\ Block[j].kind = "const" /\ Block[j].vis # "pub"
        /\ IsFn(k) /\ HasModifier(Block[k]) /\ ModifierIdx(Block[k]) = 2
        /\ out[1].body[k] # Block[k]

\* -------------------------------------------------------------------- C9

\* The entry of Module.fns made from item i.
EntryOf(i) ==
    module[1].fns[CHOOSE k \in 1..Len(module[1].fns) : module[1].fns[k].span = i]

\* C9: in an accepted block a function item without modifier is retained
\* (with the default parameters) exactly when it is public, and a function
\* item with a modifier is retained exactly when the modifier does not say
\* skip, whatever its visibility.
C9_VisibilityOnlyWithoutModifier ==
    Accepted =>
        \A i \in 1..Len(Block) : IsFn(i) =>
            IF HasModifier(Block[i])
            THEN /\ Retained(i) <=> Modifier(Block[i]) # "skip"
                 /\ Retained(i) => EntryOf(i).params.pure = (Modifier(Block[i]) = "pure")
            ELSE /\ Retained(i) <=> Block[i].vis = "pub"
                 /\ Retained(i) => EntryOf(i).params = [skip |-> FALSE, pure |-> FALSE]

\* An accepted block holding a retained non-public function with a non-skip
\* modifier, a skipped public function and a public function without
\* modifier.
C9_Witness ==
    /\ pc = "parsed" /\ HasBody
    /\ \E i, j, k \in 1..Len(Block) :
        /\ IsFn(i) /\ Block[i].vis # "pub" /\ HasModifier(Block[i]) /\ Retained(i)
        /\ IsFn(j) /\ Block[j].vis = "pub" /\ HasModifier(Block[j]) /\ ~Retained(j)
        /\ IsFn(k) /\ Block[k].vis = "pub" /\ ~HasModifier(Block[k]) /\ Retained(k)

\* --------------------------------------------------------------- C7, C8

\* The declared parameters of a function item without a leading call
\* context parameter.
ExposedParams(it) ==
    IF Len(it.params) > 0 /\ it.params[1].ty = "NativeCallContext"
    THEN SubSeq(it.params, 2, Len(it.params))
    ELSE it.params

\* The item the k-th retained function was made from.
ItemOf(k) == Block[module[1].fns[k].span]

\* C7 as claimed: for every retained function the set_fn type list and the
\* dispatcher's input_types() are the same list, as long as the non-context
\* parameters, the i-th token being the i-th parameter's declared type (for
\* a reference, the referenced type).
C7_TokensAreDeclaredTypes ==
    Generated =>
        \A k \in 1..Len(module[1].fns) :
            LET ps == ExposedParams(ItemOf(k)) IN
            /\ GenCode.set_fns[k].types = GenCode.dispatchers[k].input_types
            /\ Len(GenCode.set_fns[k].types) = Len(ps)
            /\ \A i \in 1..Len(ps) : GenCode.set_fns[k].types[i] = ps[i].ty

\* C7 (amended): as claimed, except that a &str parameter is registered
\* under the token of ImmutableString, not of str.
C7_TokensFollowParameters ==
    Generated =>
        \A k \in 1..Len(module[1].fns) :
            LET ps == ExposedParams(ItemOf(k)) IN
            /\ GenCode.set_fns[k].types = GenCode.dispatchers[k].input_types
            /\ Len(GenCode.dispatchers[k].input_types) = Len(ps)
            /\ GenCode.dispatchers[k].arg_count = Len(ps)
            /\ \A i \in 1..Len(ps) :
                /\ ps[i].ty = "str" =>
                      GenCode.dispatchers[k].input_types[i] = "ImmutableString"
                /\ ps[i].ty # "str" =>
                      GenCode.dispatchers[k].input_types[i] = ps[i].ty

\* A generated function with a call context, a by-value, a &str and a &mut
\* parameter: three tokens, the second of ImmutableString.
C7_Witness ==
    /\ Generated
    /\ Len(module[1].fns) = 1
    /\ Len(ItemOf(1).params) = 4
    /\ ItemOf(1).params[1].ty = "NativeCallContext"
    /\ GenCode.set_fns[1].types = <<"INT", "ImmutableString", "FLOAT">>

\* C8 as claimed: is_method_call() is true exactly when the function's
\* first declared parameter is a mutable reference.
C8_MethodCallIffFirstParamMut ==
    Generated =>
        \A k \in 1..Len(module[1].fns) :
            GenCode.dispatchers[k].is_method_call
                <=> (Len(ItemOf(k).params) > 0 /\ ItemOf(k).params[1].mode = "mut")

\* C8 (amended): is_method_call() is true exactly when the first parameter
\* after a leading call context parameter is a mutable reference; it is
\* false when that parameter is an immutable reference or by value, and when
\* there is none.
C8_MethodCallIffFirstExposedParamMut ==
    Generated =>
        \A k \in 1..Len(module[1].fns) :
            LET ps == ExposedParams(ItemOf(k)) IN
            /\ (Len(ps) > 0 /\ ps[1].mode = "mut") => GenCode.dispatchers[k].is_method_call
            /\ (Len(ps) > 0 /\ ps[1].mode \in {"ref", "val"}) =>
                   ~GenCode.dispatchers[k].is_method_call
            /\ Len(ps) = 0 => ~GenCode.dispatchers[k].is_method_call

\* A generated function whose call context parameter is followed by a &mut
\* parameter and a by-value one: a method call.
C8_Witness ==
    /\ Generated
    /\ Len(module[1].fns) = 1
    /\ Len(ItemOf(1).params) = 3
    /\ ItemOf(1).params[1].ty = "NativeCallContext"
    /\ ItemOf(1).params[2].mode = "mut"
    /\ ItemOf(1).params[3].mode = "val"
    /\ GenCode.dispatchers[1].is_method_call

\* ------------------------------------------------------------------- C10

C11_Step ==
    LET v == call'.var
        t == call'.tag
    IN /\ call'.fn = "set_tag" =>
            /\ result'.kind = "ok" <=> (TagMIN <= t /\ t <= TagMAX)
            /\ result'.kind = "ok" => values'[v].tag = t
            /\ result'.kind # "ok" =>
                /\ result'.kind = "err"
                /\ result'.err.variant = "ErrorArithmetic"
                /\ t < TagMIN => result'.err.msg.what = "too small"
                /\ t > TagMAX => result'.err.msg.what = "too large"
                /\ result'.err.msg.tag = t
                /\ values'[v] = values[v]
            /\ \A w \in Vars : w # v => values'[w] = values[w]
       /\ call'.fn = "get_tag" =>
            /\ result'.kind = "ok"
            /\ result'.val.ty = "INT"
            /\ result'.val.data = values[v].tag
            /\ values' = values

\* C11: set_tag(value, tag) succeeds exactly when Tag::MIN <= tag <=
\* Tag::MAX; a success makes tag the value's tag, a failure is an arithmetic
\* error (too small below the range, too large above it) and leaves the tag
\* as it was; get_tag returns the value's tag and changes nothing.  Hence
\* get_tag returns the tag of the last successful set_tag call on the value.
C11_SetTagRangeChecked == [][C11_Step]_vars

\* get_tag has just returned Tag::MIN for a variable while the other variable
\* holds Tag::MAX: both limits were accepted by earlier set_tag calls.
C11_Witness ==
    /\ call.fn = "get_tag"
    /\ result.kind = "ok" /\ result.val.data = TagMIN
    /\ \E w \in Vars : w # call.var /\ values[w].tag = TagMAX

\* ------------------------------------------------------------------- C16

\* The signature of a function item that the signature parser rejects.
BadSignature(it) == \E j \in 1..Len(it.params) : it.params[j].ty = "&INT"

\* A function description without its place in the block.
Described(fns) ==
    [k \in 1..Len(fns) |->
        [name |-> fns[k].name, is_public |-> fns[k].is_public,
         sig |-> fns[k].sig, pass_context |-> fns[k].pass_context,
         params |-> fns[k].params]]

\* The input declaration with item i taken out of its block.
InputWithout(i) == [input EXCEPT !.content = <<Remove(Block, i)>>]

\* C16: the signature of every function item is parsed before its skip flag
\* is looked at.  A skipped function (explicit skip, or not public and
\* without modifier) whose signature is rejected makes the parse of the
\* block fail.  A skipped function whose signature is accepted changes
\* nothing but its own item, which loses its modifier: the block is accepted
\* exactly when it is accepted without that item, with the same functions,
\* the same constants, the same other items and the same generated code.
C16_SkippedFnSignatureStillParsed ==
    (pc # "input" /\ HasBody) =>
        \A i \in 1..Len(Block) : SkippedFn(i) =>
            IF BadSignature(Block[i]) THEN pc = "failed"
            ELSE LET rest == Module_parse(InputWithout(i)) IN
                 /\ (module = <<>>) <=> (rest = <<>>)
                 /\ module # <<>> =>
                     /\ Described(module[1].fns) = Described(rest[1].fns)
                     /\ module[1].consts = rest[1].consts
                     /\ Remove(module[1].mod_all.content[1], i)
                            = rest[1].mod_all.content[1]
                     /\ module[1].mod_all.content[1][i] =
                            IF HasModifier(Block[i])
                            THEN [Block[i] EXCEPT
                                     !.attrs = WithoutModifier(Block[i].attrs)]
                            ELSE Block[i]
                     /\ Generated =>
                            GenCode = generate_body(rest[1].fns, rest[1].consts)

\* A block rejected only because of skipped functions: it holds a private
\* function without modifier and a public function marked skip, both with a
\* rejected signature, an exported function, and nothing else the parser
\* rejects.
C16_Witness ==
    /\ pc = "failed" /\ HasBody
    /\ \E i, j, k \in 1..Len(Block) :
        /\ SkippedFn(i) /\ ~HasModifier(Block[i]) /\ BadSignature(Block[i])
        /\ SkippedFn(j) /\ HasModifier(Block[j]) /\ BadSignature(Block[j])
        /\ KeptFn(k) /\ ~RejectedFn(k)
    /\ \A n \in 1..Len(Block) : RejectedFn(n) => SkippedFn(n)

\* ------------------------------------------------------------------- C17

\* C17: the generated unit is always a public module under the name of the
\* input declaration and without outer attributes, whatever the visibility
\* and the outer attributes of the declaration, and it carries the items of
\* the declaration's body; a declaration without inline body is parsed
\* successfully into a Module with no functions and no constants.
C17_UnitIsPublicModuleOfSameName ==
    /\ Generated =>
        /\ out[1].vis = "pub"
        /\ out[1].attrs = <<>>
        /\ out[1].ident = input.ident
        /\ Len(out[1].body) = Len(Block) + 1
        /\ \A i \in 1..Len(Block) :
              out[1].body[i] = module[1].mod_all.content[1][i]
    /\ (pc # "input" /\ ~HasBody) =>
        /\ pc # "failed"
        /\ module # <<>>
        /\ module[1].fns = <<>>
        /\ module[1].consts = <<>>

\* A unit generated from a private declaration with an outer attribute and
\* a body of several items.
C17_Witness ==
    /\ Generated
    /\ input.vis = "priv" /\ input.attrs # <<>> /\ input.ident = "n"
    /\ Len(Block) >= 2
    /\ out[1].vis = "pub"

\* ------------------------------------------------------------------- C14

\* The value a native function leaves behind a &mut argument.
Modified(v) == [v EXCEPT !.data = @ + 1]

\* C14: a dispatcher's call reads argument i from slot i, in declared order;
\* afterwards the slot of a by-value or immutable-reference parameter holds
\* the default boxed value, the slot of a mutable-reference parameter holds
\* the value as the native function modified it (it is not reset), and the
\* list has the length it had.
C14_SlotsTakenOrBorrowed ==
    pc = "called" =>
        LET ps == ExposedParams(Block[1]) IN
        /\ Len(call.slots) = Len(ps)
        /\ Len(args) = Len(call.slots)
        /\ Len(call.passed) = Len(ps)
        /\ \A i \in 1..Len(ps) :
            /\ call.passed[i] = call.slots[i]
            /\ ps[i].mode \in {"val", "ref"} => args[i] = DynamicUNIT
            /\ ps[i].mode = "mut" =>
                /\ args[i] = Modified(call.slots[i])
                /\ args[i] # DynamicUNIT
        /\ result.kind = "ok"
        /\ result.val.data = [i \in 1..Len(ps) |-> call.slots[i].data]

\* A call with a call context parameter and three supplied parameters: a
\* mutable reference first, then a value and a string reference, the first
\* two slots holding different data before the call.
C14_Witness ==
    /\ pc = "called"
    /\ Len(Block[1].params) = 4
    /\ Block[1].params[1].ty = "NativeCallContext"
    /\ Block[1].params[2].mode = "mut"
    /\ Block[1].params[3].mode = "val"
    /\ Block[1].params[4].mode = "ref"
    /\ call.slots[1].data # call.slots[2].data
    /\ args[2] = DynamicUNIT /\ args[3] = DynamicUNIT

\* ------------------------------------------------------ C12, C13 and C15

\* The import or context namespace a module lies in, and the modules from
\* there down to it.
RECURSIVE RootOf(_)
RootOf(i) == IF ctx[i].kind = "sub" THEN RootOf(ctx[i].parent) ELSE i

RECURSIVE PathTo(_)
PathTo(i) ==
    IF ctx[i].kind = "sub" THEN Append(PathTo(ctx[i].parent), i) ELSE <<i>>

\* All modules the context sees, at any depth; and those among them that are
\* a namespace of the context itself or lie in an import, at any depth.
AllModules == 1..Len(ctx)
OwnOrImported ==
    {i \in AllModules : ctx[i].kind = "own" \/ ctx[RootOf(i)].kind = "import"}

\* The script-defined functions of a set of modules: <<i, k>> is the k-th
\* function of module i.
ScriptFns(N) ==
    UNION {{<<i, k>> : k \in {n \in 1..Len(ctx[i].fns) : ctx[i].fns[n].script}} :
              i \in N}
FnAt(o) == ctx[o[1]].fns[o[2]]

\* As many records bear a name as functions of N do, and there are no
\* records beyond these.
OneRecordPerFn(N) ==
    /\ Len(list) = Cardinality(ScriptFns(N))
    /\ \A o \in ScriptFns(N) :
          Cardinality({j \in 1..Len(list) : list[j].name = FnAt(o).name})
              = Cardinality({q \in ScriptFns(N) : FnAt(q).name = FnAt(o).name})

\* C12 as claimed: the list holds exactly one record for every
\* script-defined function of every module the context sees, nested at any
\* depth in one of the context's own namespaces or in an import, and nothing
\* else.
C12_OneRecordPerVisibleFn == pc = "collected" => OneRecordPerFn(AllModules)

\* C12: the list holds exactly one record for every script-defined function
\* defined directly in one of the context's own namespaces or, at any
\* depth, in an import, and nothing else; the namespaces nested in the
\* context's own namespaces are not scanned.
C12_OneRecordPerOwnOrImportedFn ==
    pc = "collected" => OneRecordPerFn(OwnOrImported)

\* The list for a context with functions in one of its own namespaces, in an
\* import, in a namespace nested in the import and in one nested in that,
\* native functions among them.
C12_Witness ==
    /\ pc = "collected"
    /\ \E i, j, k, n \in AllModules :
        /\ ctx[i].kind = "own" /\ ctx[j].kind = "import"
        /\ ctx[k].kind = "sub" /\ ctx[k].parent = j
        /\ ctx[n].kind = "sub" /\ ctx[n].parent = k
        /\ \A x \in {i, j, k, n} : ScriptFns({x}) # {}
        /\ \E x \in {i, j, k, n} : \E y \in 1..Len(ctx[x].fns) : ~ctx[x].fns[y].script
    /\ Len(list) >= 4

\* The names on a path joined by the separator.
RECURSIVE JoinPath(_)
JoinPath(p) ==
    IF Len(p) = 1 THEN ctx[p[1]].name
    ELSE JoinPath(SubSeq(p, 1, Len(p) - 1)) \o <<":", ":">> \o ctx[p[Len(p)]].name

HasAnonymousPrefix(name) ==
    /\ Len(name) >= Len(FN_ANONYMOUS)
    /\ \A k \in 1..Len(FN_ANONYMOUS) : name[k] = FN_ANONYMOUS[k]

\* The namespace key of record r is what function o requires: absent in a
\* namespace of the context, the joined path in an import.
NamespaceOf(o, r) ==
    IF ctx[RootOf(o[1])].kind = "own" THEN "namespace" \notin DOMAIN r
    ELSE "namespace" \in DOMAIN r /\ r.namespace = JoinPath(PathTo(o[1]))

\* Record r describes function o.
Describes(o, r) ==
    /\ r.name = FnAt(o).name
    /\ r.access = "public" <=> FnAt(o).access = "Public"
    /\ r.access = "private" <=> FnAt(o).access = "Private"
    /\ r.is_anonymous <=> HasAnonymousPrefix(FnAt(o).name)
    /\ r.params = FnAt(o).params
    /\ NamespaceOf(o, r)

\* C13: every record has the keys name, access, is_anonymous and params and
\* at most the key namespace besides; it describes a script-defined function
\* of the context: its name, "public" or "private" as its access is,
\* is_anonymous true exactly when the name starts with the anonymous prefix,
\* its parameter names in order, no namespace key when the function is in a
\* namespace of the context, and for a function in an import the import's
\* name followed by the names of the nested namespaces down to it, joined
\* by `::`.
C13_RecordDescribesFunction ==
    pc = "collected" =>
        \A j \in 1..Len(list) :
            /\ {"name", "access", "is_anonymous", "params"} \subseteq DOMAIN list[j]
            /\ DOMAIN list[j] \subseteq
                   {"namespace", "name", "access", "is_anonymous", "params"}
            /\ list[j].access \in {"public", "private"}
            /\ \E o \in ScriptFns(OwnOrImported) : Describes(o, list[j])

\* A list with a record without namespace, the record of an anonymous
\* function, and the record of a private function whose name is only the
\* start of the prefix, found two levels below an import.
C13_Witness ==
    /\ pc = "collected"
    /\ \E a, b, c \in 1..Len(list) :
        /\ "namespace" \notin DOMAIN list[a]
        /\ list[b].is_anonymous
        /\ "namespace" \in DOMAIN list[c]
        /\ Len(list[c].namespace) = 7
        /\ list[c].access = "private" /\ ~list[c].is_anonymous
        /\ list[c].params = <<>>

\* p is a proper start of q.
IsPrefix(p, q) == Len(p) < Len(q) /\ SubSeq(q, 1, Len(p)) = p

\* Function a is discovered before function b: the functions of the
\* context's namespaces before those of the imports; the functions of one
\* module in its order; a module's functions before those of the modules
\* nested in it; otherwise by the order of the namespaces (imports, or
\* nested namespaces of one module) where the two paths part.
Precedes(a, b) ==
    LET pa == PathTo(a[1])
        pb == PathTo(b[1])
    IN IF ctx[pa[1]].kind # ctx[pb[1]].kind THEN ctx[pa[1]].kind = "own"
       ELSE IF a[1] = b[1] THEN a[2] < b[2]
       ELSE IF IsPrefix(pa, pb) THEN TRUE
       ELSE IF IsPrefix(pb, pa) THEN FALSE
       ELSE LET d == CHOOSE n \in 1..Len(pa) :
                         /\ pa[n] # pb[n]
                         /\ \A x \in 1..(n - 1) : pa[x] = pb[x]
            IN pa[d] < pb[d]

\* The place of a function in the list.
Rank(o) == 1 + Cardinality({q \in ScriptFns(OwnOrImported) : Precedes(q, o)})

\* C15: the list is in discovery order: the records of the functions of the
\* context's namespaces first, in namespace order, then those of each import
\* in import order; within an import a module's own functions before those
\* of its nested namespaces, and each nested namespace completely before the
\* next one.
C15_DiscoveryOrder ==
    pc = "collected" =>
        \A o \in ScriptFns(OwnOrImported) :
            /\ Rank(o) <= Len(list)
            /\ list[Rank(o)].name = FnAt(o).name
            /\ NamespaceOf(o, list[Rank(o)])

\* The list of an import with functions of its own and two nested
\* namespaces, the first of them with a nested namespace of its own, all
\* with functions.
C15_Witness ==
    /\ pc = "collected"
    /\ \E i, j, k, n \in AllModules :
        /\ ctx[i].kind = "import"
        /\ ctx[j].kind = "sub" /\ ctx[j].parent = i
        /\ ctx[n].kind = "sub" /\ ctx[n].parent = i
        /\ ctx[k].kind = "sub" /\ ctx[k].parent = j
        /\ j < n /\ n < k
        /\ \A x \in {i, j, k, n} : ScriptFns({x}) # {}
    /\ Len(list) >= 4

====
